---- MODULE Spec2Model ----
(***************************************************************************)
(* resume-ai: the response normalizer (cleanResponse), the provider        *)
(* adapter (improveResumeBullet and its three backends) of lib/llm.ts and  *)
(* the POST /improve route handler with its best-effort storage insert.    *)
(*                                                                         *)
(* Program text is modelled as a sequence of one-character strings, so    *)
(* that trimming and the regular-expression replacements are computed     *)
(* character by character.  Error messages, which the code only builds    *)
(* and compares, are TLA+ strings.                                         *)
(***************************************************************************)
EXTENDS Integers, Sequences, FiniteSets, TLC

VARIABLES
    raw,            \* normalizer harness: the string first handed to cleanResponse
    cleaned,        \* normalizer harness: the current string
    passes,         \* normalizer harness: how many times cleanResponse was applied
    env,            \* process.env, as the route and lib/supabase.ts read it
    routeModule,    \* the route module: "unloaded" or "loaded"
    supabaseClient, \* lib/supabase.ts: the module-level client, "null" or "client"
    pc,             \* where the request being served stands
    reqNo,          \* number of requests received so far
    body,           \* what request.json() yields for the request being served
    inputText,      \* the text handed to improveResumeBullet
    invocations,    \* the improveResumeBullet invocations so far: request, text
    httpLog,        \* the fetch calls so far, oldest first: request, URL
    fetched,        \* how the provider's fetch settled for this request
    llmResponse,    \* what improveResumeBullet returned for this request
    inserts,        \* the records this request handed to supabase.insert
    dbResult,       \* how the insert settled for this request
    response        \* the HTTP response given to this request

cleanVars == <<raw, cleaned, passes>>

routeVars ==
    <<env, routeModule, supabaseClient, pc, reqNo, body, inputText, invocations,
      httpLog, fetched, llmResponse, inserts, dbResult, response>>

vars == <<cleanVars, routeVars>>

(***************************************************************************)
(* Bounds                                                                  *)
(***************************************************************************)

\* Longest normalizer input, counted in fragments (see Fragments).
MaxFrags == 3

\* Number of requests a behaviour serves.
MaxRequests == 2

(***************************************************************************)
(* Characters                                                              *)
(***************************************************************************)

\* The characters \s and String.prototype.trim treat as white space
\* (representatives: space, tab, line feed).
WhiteSpace == {" ", "\t", "\n"}

\* The character class ["'] of the quote-stripping expression.
QuoteChars == {"\"", "'"}

\* The character class [:-\s] of the punctuation-stripping expression: without
\* the u flag a "range" whose end is a class escape is the union of the colon,
\* the dash and \s.
PunctChars == {":", "-"} \cup WhiteSpace

\* Case folding of the i flag, for the letters the model's texts use.
ToLower ==
    [c \in {"B", "E", "I", "L", "O", "R", "T", "U"} |->
        CASE c = "B" -> "b" [] c = "E" -> "e" [] c = "I" -> "i" [] c = "L" -> "l"
          [] c = "O" -> "o" [] c = "R" -> "r" [] c = "T" -> "t" [] c = "U" -> "u"]

Canonicalize(c) == IF c \in DOMAIN ToLower THEN ToLower[c] ELSE c

(***************************************************************************)
(* cleanResponse                                                           *)
(***************************************************************************)
ImprovedResumeBulletLabel ==
    <<"I", "m", "p", "r", "o", "v", "e", "d", " ", "R", "e", "s", "u", "m", "e", " ", "B", "u", "l", "l", "e", "t", ":">>
ImprovedBulletLabel ==
    <<"I", "m", "p", "r", "o", "v", "e", "d", " ", "B", "u", "l", "l", "e", "t", ":">>
ImprovedLabel ==
    <<"I", "m", "p", "r", "o", "v", "e", "d", ":">>
ResumeBulletLabel ==
    <<"R", "e", "s", "u", "m", "e", " ", "B", "u", "l", "l", "e", "t", ":">>
BulletLabel ==
    <<"B", "u", "l", "l", "e", "t", ":">>
OutputLabel ==
    <<"O", "u", "t", "p", "u", "t", ":">>
ResultLabel ==
    <<"R", "e", "s", "u", "l", "t", ":">>

\* The array "prefixes", in the order the loop tries its entries.
prefixes ==
    <<ImprovedResumeBulletLabel, ImprovedBulletLabel, ImprovedLabel,
      ResumeBulletLabel, BulletLabel, OutputLabel, ResultLabel>>

\* Length of the longest run of characters of S at the start of s.
LeadingRun(s, S) ==
    CHOOSE n \in 0..Len(s) :
        /\ \A i \in 1..n : s[i] \in S
        /\ (n < Len(s) => s[n + 1] \notin S)

\* Length of the longest run of characters of S at the end of s.
TrailingRun(s, S) ==
    CHOOSE n \in 0..Len(s) :
        /\ \A i \in (Len(s) - n + 1)..Len(s) : s[i] \in S
        /\ (n < Len(s) => s[Len(s) - n] \notin S)

\* s.replace(/^[S]+|[S]+$/g, ''): the leading run goes, then the trailing run
\* of what is left.
StripEnds(s, S) ==
    LET rest == SubSeq(s, LeadingRun(s, S) + 1, Len(s))
    IN  SubSeq(rest, 1, Len(rest) - TrailingRun(rest, S))

\* String.prototype.trim
Trim(s) == StripEnds(s, WhiteSpace)

\* /^label/i matches at the start of s.
StartsWithLabel(s, label) ==
    /\ Len(s) >= Len(label)
    /\ \A i \in 1..Len(label) : Canonicalize(s[i]) = Canonicalize(label[i])

\* s.replace(/^label\s*/i, ''): the label and the white space after it go when
\* the label stands at the start; otherwise s is returned as it is.
StripPrefix(s, label) ==
    IF StartsWithLabel(s, label)
    THEN LET rest == SubSeq(s, Len(label) + 1, Len(s))
         IN  SubSeq(rest, LeadingRun(rest, WhiteSpace) + 1, Len(rest))
    ELSE s

\* for (const prefix of prefixes) cleaned = cleaned.replace(prefix, ''),
\* from entry k of the array on.
RECURSIVE StripPrefixesFrom(_, _)
StripPrefixesFrom(s, k) ==
    IF k > Len(prefixes) THEN s
    ELSE StripPrefixesFrom(StripPrefix(s, prefixes[k]), k + 1)

\* A loop that leaves at the first prefix that matches.
RECURSIVE StripFirstPrefixFrom(_, _)
StripFirstPrefixFrom(s, k) ==
    IF k > Len(prefixes) THEN s
    ELSE IF StartsWithLabel(s, prefixes[k]) THEN StripPrefix(s, prefixes[k])
    ELSE StripFirstPrefixFrom(s, k + 1)

StripPrefixes_FirstOnly(s) == StripFirstPrefixFrom(s, 1)

StripPrefixes(s) == StripPrefixesFrom(s, 1)

StripQuotes(s) == StripEnds(s, QuoteChars)

StripPunctuation(s) == StripEnds(s, PunctChars)

cleanResponse(text) ==
    Trim(StripPunctuation(StripQuotes(StripPrefixes(Trim(text)))))

(***************************************************************************)
(* The normalizer applied to bounded inputs                                *)
(***************************************************************************)

\* The pieces normalizer inputs are made of: every known label, one label in
\* another case, and the characters the expressions look for.
Fragments ==
    { ImprovedResumeBulletLabel, ImprovedBulletLabel, ImprovedLabel,
      ResumeBulletLabel, BulletLabel, OutputLabel, ResultLabel,
      <<"B", "U", "L", "L", "E", "T", ":">>,
      <<"\"">>, <<"'">>, <<":">>, <<"-">>, <<" ">>, <<"x">> }

RECURSIVE Texts(_)
Texts(n) ==
    IF n = 0 THEN {<<>>}
    ELSE Texts(n - 1) \cup {t \o f : t \in Texts(n - 1), f \in Fragments}

\* Label i, then label j, then "x", the parts separated by sep.
LabelPair(i, j, sep) == prefixes[i] \o sep \o prefixes[j] \o sep \o <<"x">>

\* Every text of at most MaxFrags fragments, and every pair of labels written
\* with a space after each label.
CleanInputs ==
    Texts(MaxFrags)
    \cup {LabelPair(i, j, <<" ">>) : i \in DOMAIN prefixes, j \in DOMAIN prefixes}

(***************************************************************************)
(* Values the adapter sees                                                 *)
(***************************************************************************)

\* The fixed part of the prompt template, which ends in "Resume Bullet: ";
\* the whole instruction text is one element.
PromptHead ==
    <<"You are a senior FAANG resume coach ... Return ONLY the improved bullet\n\nResume Bullet: ">>

\* The template with ${inputText} interpolated.
Prompt(text) == PromptHead \o text

\* What response.json() yields, by the shape the adapters look at:
\*   unparseable       json() rejects with a SyntaxError
\*   null              null
\*   emptyObject       {}
\*   errorString       {error: message}
\*   errorObject       {error: {message: message}}
\*   emptyChoices      {choices: []}
\*   choiceNoMessage   {choices: [{}]}
\*   messageNoContent  {choices: [{message: {}}]}
\*   content           {choices: [{message: {content: content}}]}
\*   emptyArray        []
\*   elementNoText     [{}]
\*   generated         [{generated_text: content}], after the prompt when echo
Json(shape, message, content, echo) ==
    [shape |-> shape, message |-> message, content |-> content, echo |-> echo]

Plain(shape) == Json(shape, "", <<>>, FALSE)

\* Completions the providers answer with.
Completions ==
    { <<>>, <<" ">>, <<"x">>, <<" ", "x", " ">>, <<"\"">>, <<"\"", "x", "\"">>,
      BulletLabel \o <<" ", "x">>, <<"-", "\"", "x", "\"", "-">> }

Bodies ==
    {Plain(s) : s \in {"unparseable", "null", "emptyObject", "emptyChoices",
                       "choiceNoMessage", "messageNoContent", "emptyArray",
                       "elementNoText"}}
    \cup {Json("errorString", m, <<>>, FALSE) : m \in {"", "Model is loading"}}
    \cup {Json("errorObject", m, <<>>, FALSE) : m \in {"", "rate limited"}}
    \cup {Json("content", "", c, FALSE) : c \in Completions}
    \cup {Json("generated", "", c, e) : c \in Completions, e \in BOOLEAN}

\* How a fetch settles: it rejects (DNS, timeout, connection reset), or it
\* yields a response with response.ok, response.statusText and a body.
Settled(settlement, reason, ok, statusText, b) ==
    [settlement |-> settlement, reason |-> reason, ok |-> ok,
     statusText |-> statusText, body |-> b]

NotSettled == Settled("pending", "", FALSE, "", Plain("null"))

FetchOutcomes ==
    {Settled("rejected", "fetch failed", FALSE, "", Plain("null"))}
    \cup {Settled("fulfilled", "", TRUE, "OK", b) : b \in Bodies}
    \cup {Settled("fulfilled", "", FALSE, s, b) :
            s \in {"Internal Server Error", "Too Many Requests"}, b \in Bodies}

\* The messages of the errors the JavaScript engine itself throws.
JsonSyntaxMessage == "Unexpected token < in JSON at position 0"
ReadOfNullMessage(property) ==
    "Cannot read properties of null (reading '" \o property \o "')"
IndexOfUndefinedMessage == "Cannot read properties of undefined (reading '0')"
DestructureNullMessage ==
    "Cannot destructure property 'inputText' of '(intermediate value)' as it is null."

\* A call ends by returning a text or by throwing an Error with a message.
Return(text) == [threw |-> FALSE, message |-> "", text |-> text]
Throw(message) == [threw |-> TRUE, message |-> message, text |-> <<>>]

\* s.replace(p, '') with a string pattern: the first occurrence of p goes.
Occurrences(s, p) ==
    {i \in 1..(Len(s) - Len(p) + 1) : SubSeq(s, i, i + Len(p) - 1) = p}

Replace(s, p) ==
    IF Occurrences(s, p) = {} THEN s
    ELSE LET i == CHOOSE j \in Occurrences(s, p) :
                      \A k \in Occurrences(s, p) : j <= k
         IN  SubSeq(s, 1, i - 1) \o SubSeq(s, i + Len(p), Len(s))

\* await response.json().catch(() => ({ error: 'Unknown error' }))
JsonOrUnknownError(b) ==
    IF b.shape = "unparseable"
    THEN Json("errorString", "Unknown error", <<>>, FALSE)
    ELSE b

\* error.error?.message of a non-null value, "" standing for undefined.
ErrorMessageOf(error) ==
    IF error.shape = "errorObject" THEN error.message ELSE ""

\* String(error.error) when error.error is truthy, "" when it is falsy: the
\* message new Error(error.error) gets.
ErrorTextOf(error) ==
    CASE error.shape = "errorString" -> error.message
      [] error.shape = "errorObject" -> "[object Object]"
      [] OTHER -> ""

\* data.choices is an array.
HasChoices(data) ==
    data.shape \in {"emptyChoices", "choiceNoMessage", "messageNoContent", "content"}

\* data.choices[0]?.message?.content, <<>> standing for undefined.
FirstChoiceContent(data) ==
    IF data.shape = "content" THEN data.content ELSE <<>>

\* data[0].generated_text of an array, <<>> standing for undefined.
GeneratedText(data, prompt) ==
    IF data.shape = "generated"
    THEN (IF data.echo THEN prompt ELSE <<>>) \o data.content
    ELSE <<>>

(***************************************************************************)
(* The three backends, from the point where their fetch settles            *)
(***************************************************************************)

callOpenAI(prompt, config, outcome) ==
    IF outcome.settlement = "rejected" THEN Throw(outcome.reason)
    ELSE IF ~outcome.ok THEN
        LET error == JsonOrUnknownError(outcome.body)
        IN  IF error.shape = "null" THEN Throw(ReadOfNullMessage("error"))
            ELSE IF ErrorMessageOf(error) # "" THEN Throw(ErrorMessageOf(error))
            ELSE Throw("OpenAI API error: " \o outcome.statusText)
    ELSE
        LET data == outcome.body
        IN  IF data.shape = "unparseable" THEN Throw(JsonSyntaxMessage)
            ELSE IF data.shape = "null" THEN Throw(ReadOfNullMessage("choices"))
            ELSE IF ~HasChoices(data) THEN Throw(IndexOfUndefinedMessage)
            ELSE LET rawText == Trim(FirstChoiceContent(data))
                 IN  IF rawText = <<>> THEN Throw("No response from OpenAI")
                     ELSE Return(cleanResponse(rawText))

callGroq(prompt, config, outcome) ==
    IF outcome.settlement = "rejected" THEN Throw(outcome.reason)
    ELSE IF ~outcome.ok THEN
        LET error == JsonOrUnknownError(outcome.body)
        IN  IF error.shape = "null" THEN Throw(ReadOfNullMessage("error"))
            ELSE IF ErrorMessageOf(error) # "" THEN Throw(ErrorMessageOf(error))
            ELSE Throw("Groq API error: " \o outcome.statusText)
    ELSE
        LET data == outcome.body
        IN  IF data.shape = "unparseable" THEN Throw(JsonSyntaxMessage)
            ELSE IF data.shape = "null" THEN Throw(ReadOfNullMessage("choices"))
            ELSE IF ~HasChoices(data) THEN Throw(IndexOfUndefinedMessage)
            ELSE LET rawText == Trim(FirstChoiceContent(data))
                 IN  IF rawText = <<>> THEN Throw("No response from Groq")
                     ELSE Return(cleanResponse(rawText))

callHuggingFace(prompt, config, outcome) ==
    IF outcome.settlement = "rejected" THEN Throw(outcome.reason)
    ELSE IF ~outcome.ok THEN
        LET error == JsonOrUnknownError(outcome.body)
        IN  IF error.shape = "null" THEN Throw(ReadOfNullMessage("error"))
            ELSE IF ErrorTextOf(error) # "" THEN Throw(ErrorTextOf(error))
            ELSE Throw("Hugging Face API error: " \o outcome.statusText)
    ELSE
        LET data == outcome.body
        IN  IF data.shape = "unparseable" THEN Throw(JsonSyntaxMessage)
            ELSE LET rawText ==
                         IF GeneratedText(data, prompt) # <<>>
                         THEN Trim(Replace(GeneratedText(data, prompt), prompt))
                         ELSE <<>>
                 IN  IF rawText = <<>> THEN Throw("No response from Hugging Face")
                     ELSE Return(cleanResponse(rawText))

(***************************************************************************)
(* improveResumeBullet                                                     *)
(***************************************************************************)

SupportedProviders == {"openai", "groq", "huggingface"}

\* The URL each backend hands to fetch.
RequestUrl(config) ==
    CASE config.provider = "openai" ->
            "https://api.openai.com/v1/chat/completions"
      [] config.provider = "groq" ->
            "https://api.groq.com/openai/v1/chat/completions"
      [] config.provider = "huggingface" ->
            (IF config.baseUrl # "" THEN config.baseUrl
             ELSE "https://api-inference.huggingface.co/models")
            \o "/" \o
            (IF config.model # "" THEN config.model
             ELSE "mistralai/Mistral-7B-Instruct-v0.2")

\* A dispatch that falls back to the first backend for a provider it does
\* not know, instead of throwing.
FetchesOf_FallBack(config) ==
    IF config.provider \in SupportedProviders THEN <<RequestUrl(config)>>
    ELSE <<RequestUrl([config EXCEPT !.provider = "openai"])>>

\* The fetch calls an invocation makes before it first awaits: the switch
\* enters one backend, which calls fetch once, or it throws in the default
\* branch.
FetchesOf(config) ==
    IF config.provider \in SupportedProviders THEN <<RequestUrl(config)>> ELSE <<>>

\* A backend that calls fetch once more when the first call did not succeed.
FetchesAfter_Retry(config, outcome) ==
    IF outcome.settlement = "rejected" \/ ~outcome.ok
    THEN <<RequestUrl(config)>> ELSE <<>>

\* The fetch calls an invocation makes after its fetch has settled with
\* outcome: none, whatever the outcome (each backend throws or returns).
FetchesAfter(config, outcome) == <<>>

\* An LLMResponse; hasError tells whether the error field is present.
LLMResponse(text, hasError, error) ==
    [text |-> text, hasError |-> hasError, error |-> error]

NoLLMResponse == LLMResponse(<<>>, FALSE, "")

\* The LLMResponse an invocation returns once its fetch, if it made one, has
\* settled with outcome.
improveResumeBullet(text, config, outcome) ==
    LET prompt == Prompt(text)
        result ==
            CASE config.provider = "openai" -> callOpenAI(prompt, config, outcome)
              [] config.provider = "groq" -> callGroq(prompt, config, outcome)
              [] config.provider = "huggingface" ->
                    callHuggingFace(prompt, config, outcome)
              [] OTHER -> Throw("Unsupported provider: " \o config.provider)
    IN  IF result.threw THEN LLMResponse(<<>>, TRUE, result.message)
        ELSE LLMResponse(result.text, FALSE, "")

(***************************************************************************)
(* lib/supabase.ts                                                         *)
(***************************************************************************)

\* getSupabaseClient with the module-level client being client: it throws,
\* or returns the client, which it has created and kept if there was none.
getSupabaseClient(client, e) ==
    IF client # "null" THEN [threw |-> FALSE, client |-> client]
    ELSE IF e.NEXT_PUBLIC_SUPABASE_URL = "" \/ e.NEXT_PUBLIC_SUPABASE_ANON_KEY = ""
    THEN [threw |-> TRUE, client |-> client]
    ELSE [threw |-> FALSE, client |-> "client"]

\* How an insert settles: without error, with a database error in its
\* result, or by throwing.
InsertOutcomes == {"ok", "error", "throws"}

(***************************************************************************)
(* The route: POST /improve                                                *)
(***************************************************************************)

\* What request.json() yields:
\*   malformed   it rejects with a SyntaxError
\*   null        null
\*   object      a value whose inputText property has type fieldType
\*               ("undefined" when the value has no such property), and is
\*               the string str when that type is "string"
RequestBody(shape, fieldType, str) ==
    [shape |-> shape, fieldType |-> fieldType, str |-> str]

NoBody == RequestBody("none", "undefined", <<>>)

InputTexts ==
    { <<>>, <<" ">>, <<" ", "\n">>, <<"x">>, <<" ", "x", "\n">>, <<"a", " ", "b">> }

RequestBodies ==
    {RequestBody("malformed", "undefined", <<>>), RequestBody("null", "undefined", <<>>)}
    \cup {RequestBody("object", t, <<>>) : t \in {"undefined", "null", "number", "array"}}
    \cup {RequestBody("object", "string", s) : s \in InputTexts}

\* A check that tests the length of the text without trimming it.
InvalidInput_NoTrim(b) ==
    \/ (b.fieldType \in {"undefined", "null"} \/ (b.fieldType = "string" /\ b.str = <<>>))
    \/ b.fieldType # "string"
    \/ Len(b.str) = 0

\* !inputText || typeof inputText !== 'string' || inputText.trim().length === 0
InvalidInput(b) ==
    \/ (b.fieldType \in {"undefined", "null"} \/ (b.fieldType = "string" /\ b.str = <<>>))
    \/ b.fieldType # "string"
    \/ Len(Trim(b.str)) = 0

\* (process.env.LLM_PROVIDER || 'openai')
llmProvider(e) == IF e.LLM_PROVIDER # "" THEN e.LLM_PROVIDER ELSE "openai"

llmConfig(e) ==
    [provider |-> llmProvider(e), apiKey |-> e.LLM_API_KEY,
     model |-> e.LLM_MODEL, baseUrl |-> e.LLM_BASE_URL]

\* A test that looks at the error alone.
LlmFailed_ErrorOnly(r) == r.hasError /\ r.error # ""

\* llmResponse.error || !llmResponse.text
LlmFailed(r) == (r.hasError /\ r.error # "") \/ r.text = <<>>

\* NextResponse.json(...) of the handler; from is "POST", or "framework" for
\* the answer given when the route module cannot be loaded.
Answer(from, status, improvedText, error) ==
    [from |-> from, status |-> status, improvedText |-> improvedText, error |-> error]

NoAnswer == Answer("none", 0, <<>>, "")

ErrorAnswer(status, error) == Answer("POST", status, <<>>, error)

\* NextResponse.json({ improvedText: llmResponse.text }), status 200
SuccessAnswer(r) == Answer("POST", 200, r.text, "")

\* The answer to a failed improveResumeBullet.
LlmErrorAnswer(r) ==
    ErrorAnswer(500, IF r.hasError /\ r.error # "" THEN r.error
                     ELSE "Failed to improve bullet point")

\* The insert's argument.
InsertRecord(text, r) == [input_text |-> text, output_text |-> r.text]

\* A handler that reports a failed insert to the caller.
AnswerAfterInsert_Surfaced(r, outcome) ==
    IF outcome = "ok" THEN SuccessAnswer(r)
    ELSE ErrorAnswer(500, "Failed to save request")

\* The answer once the insert has settled with outcome: a database error and
\* a thrown error are logged, and the improved text is returned all the same.
AnswerAfterInsert(r, outcome) == SuccessAnswer(r)

\* Evaluating the route module evaluates lib/supabase.ts, whose last
\* statement calls getSupabaseClient.
RouteModuleLoad(client, e) == getSupabaseClient(client, e)

(***************************************************************************)
(* States and steps                                                        *)
(***************************************************************************)

\* process.env; "" stands for a variable that is not set.
Envs ==
    [LLM_PROVIDER : {"", "openai", "groq", "huggingface", "anthropic"},
     LLM_API_KEY : {"", "sk-test"},
     LLM_MODEL : {"", "custom-model"},
     LLM_BASE_URL : {"", "https://proxy.example/models"},
     NEXT_PUBLIC_SUPABASE_URL : {"", "https://db.example"},
     NEXT_PUBLIC_SUPABASE_ANON_KEY : {"", "anon-key"}]

DefaultEnv ==
    [LLM_PROVIDER |-> "", LLM_API_KEY |-> "sk-test", LLM_MODEL |-> "",
     LLM_BASE_URL |-> "", NEXT_PUBLIC_SUPABASE_URL |-> "https://db.example",
     NEXT_PUBLIC_SUPABASE_ANON_KEY |-> "anon-key"]

\* The server before its first request, in environment e.
RouteIdle(e) ==
    /\ env = e
    /\ routeModule = "unloaded"
    /\ supabaseClient = "null"
    /\ pc = "idle"
    /\ reqNo = 0
    /\ body = NoBody
    /\ inputText = <<>>
    /\ invocations = <<>>
    /\ httpLog = <<>>
    /\ fetched = NotSettled
    /\ llmResponse = NoLLMResponse
    /\ inserts = <<>>
    /\ dbResult = "none"
    /\ response = NoAnswer

Init ==
    /\ raw = <<>> /\ cleaned = <<>> /\ passes = 0
    /\ \E e \in Envs : RouteIdle(e)

\* The fetch calls to the URLs urls, as log entries of request r.
Logged(r, urls) == [i \in DOMAIN urls |-> [req |-> r, url |-> urls[i]]]

\* The request ends with answer a, before improveResumeBullet is invoked.
AnswerEarly(a) ==
    /\ response' = a
    /\ pc' = "done"
    /\ inputText' = <<>>
    /\ llmResponse' = NoLLMResponse
    /\ UNCHANGED <<invocations, httpLog>>

\* A request arrives and is served up to the point where the handler first
\* waits for the network: the route module is loaded if it is not yet, the
\* body is read and checked, the configuration is read, improveResumeBullet is
\* invoked and, for a known provider, calls fetch.
Receive(b) ==
    /\ pc \in {"idle", "done"}
    /\ reqNo < MaxRequests
    /\ reqNo' = reqNo + 1
    /\ body' = b
    /\ fetched' = NotSettled
    /\ inserts' = <<>>
    /\ dbResult' = "none"
    /\ UNCHANGED <<env, cleanVars>>
    /\ LET loaded == RouteModuleLoad(supabaseClient, env)
       IN  IF routeModule = "unloaded" /\ loaded.threw
           THEN /\ UNCHANGED <<routeModule, supabaseClient>>
                /\ AnswerEarly(Answer("framework", 500, <<>>, "Internal Server Error"))
           ELSE /\ routeModule' = "loaded"
                /\ supabaseClient' = loaded.client
                /\ IF b.shape = "malformed"
                   THEN AnswerEarly(ErrorAnswer(500, JsonSyntaxMessage))
                   ELSE IF b.shape = "null"
                   THEN AnswerEarly(ErrorAnswer(500, DestructureNullMessage))
                   ELSE IF InvalidInput(b)
                   THEN AnswerEarly(ErrorAnswer(400, "Input text is required"))
                   ELSE IF env.LLM_API_KEY = ""
                   THEN AnswerEarly(ErrorAnswer(500,
                            "LLM API key not configured. Please set LLM_API_KEY in your .env.local file."))
                   ELSE
                        /\ inputText' = Trim(b.str)
                        /\ invocations' =
                             Append(invocations, [req |-> reqNo', text |-> Trim(b.str)])
                        /\ httpLog' = httpLog \o Logged(reqNo', FetchesOf(llmConfig(env)))
                        /\ IF FetchesOf(llmConfig(env)) = <<>>
                           THEN /\ llmResponse' =
                                     improveResumeBullet(Trim(b.str), llmConfig(env), NotSettled)
                                /\ response' = LlmErrorAnswer(llmResponse')
                                /\ pc' = "done"
                           ELSE /\ llmResponse' = NoLLMResponse
                                /\ response' = NoAnswer
                                /\ pc' = "llm"

\* The provider's fetch settles: improveResumeBullet returns, and the handler
\* answers with the error or goes on to store the pair.
ProviderResponds(outcome) ==
    /\ pc = "llm"
    /\ fetched' = outcome
    /\ llmResponse' = improveResumeBullet(inputText, llmConfig(env), outcome)
    /\ httpLog' = httpLog \o Logged(reqNo, FetchesAfter(llmConfig(env), outcome))
    /\ UNCHANGED <<env, cleanVars, routeModule, reqNo, body, inputText, invocations,
                   dbResult>>
    /\ IF LlmFailed(llmResponse')
       THEN /\ response' = LlmErrorAnswer(llmResponse')
            /\ pc' = "done"
            /\ UNCHANGED <<supabaseClient, inserts>>
       ELSE LET got == getSupabaseClient(supabaseClient, env)
            IN  IF got.threw
                THEN /\ response' = SuccessAnswer(llmResponse')
                     /\ pc' = "done"
                     /\ UNCHANGED <<supabaseClient, inserts>>
                ELSE /\ supabaseClient' = got.client
                     /\ inserts' = Append(inserts, InsertRecord(inputText, llmResponse'))
                     /\ response' = NoAnswer
                     /\ pc' = "db"

\* The insert settles and the handler answers.
StorageResponds(outcome) ==
    /\ pc = "db"
    /\ dbResult' = outcome
    /\ response' = AnswerAfterInsert(llmResponse, outcome)
    /\ pc' = "done"
    /\ UNCHANGED <<env, cleanVars, routeModule, supabaseClient, reqNo, body, inputText,
                   invocations, httpLog, fetched, llmResponse, inserts>>

Next ==
    \/ \E b \in RequestBodies : Receive(b)
    \/ \E outcome \in FetchOutcomes : ProviderResponds(outcome)
    \/ \E outcome \in InsertOutcomes : StorageResponds(outcome)

Spec == Init /\ [][Next]_vars

(***************************************************************************)
(* The normalizer on its own: cleanResponse applied, and applied again, to *)
(* every text of at most MaxFrags fragments.                               *)
(***************************************************************************)

\* How often the harness applies cleanResponse to one input.
MaxPasses == 2

InitClean ==
    /\ raw \in CleanInputs
    /\ cleaned = raw
    /\ passes = 0
    /\ RouteIdle(DefaultEnv)

ApplyClean ==
    /\ passes < MaxPasses
    /\ cleaned' = cleanResponse(cleaned)
    /\ passes' = passes + 1
    /\ UNCHANGED <<raw, routeVars>>

NextClean == ApplyClean

SpecClean == InitClean /\ [][NextClean]_vars

(***************************************************************************)
(* Properties                                                              *)
(***************************************************************************)

\* A known label stands at the start of s.
StartsWithKnownLabel(s) ==
    \E k \in DOMAIN prefixes : StartsWithLabel(s, prefixes[k])

\* s starts or ends with a character of S.
EndsTouch(s, S) == s # <<>> /\ (s[1] \in S \/ s[Len(s)] \in S)

\* improveResumeBullet was invoked for the request being served and returned.
Returned ==
    /\ pc \in {"db", "done"}
    /\ \E i \in DOMAIN invocations : invocations[i].req = reqNo

\* The provider name each backend uses in its messages.
ProviderName(provider) ==
    CASE provider = "openai" -> "OpenAI"
      [] provider = "groq" -> "Groq"
      [] provider = "huggingface" -> "Hugging Face"

\* C1: cleanResponse is idempotent: applied to its own result it returns that
\* result, so the text after the second application is cleanResponse(raw).
C1_Idempotent == passes = 2 => cleaned = cleanResponse(raw)

\* C2: for a non-empty input the result of cleanResponse does not start with
\* a known label, has no quote character at either end and has no colon,
\* dash or white space at either end.
C2_CleanResult ==
    (passes = 1 /\ raw # <<>>) =>
        /\ ~StartsWithKnownLabel(cleaned)
        /\ ~EndsTouch(cleaned, QuoteChars)
        /\ ~EndsTouch(cleaned, PunctChars)

\* C3: what improveResumeBullet returns is a success (non-empty text, no
\* error) or a failure (non-empty error, empty text), never anything else.
C3_TaggedResult ==
    Returned =>
        \/ (llmResponse.text # <<>> /\ ~llmResponse.hasError)
        \/ (llmResponse.hasError /\ llmResponse.error # "" /\ llmResponse.text = <<>>)

\* C4: on a non-success status every provider's error is the message of a
\* body {"error": {"message": m}}, and is the generic message
\* "<Provider> API error: <status text>" when the body cannot be parsed.
C4_ProviderErrorMessage ==
    (Returned /\ fetched.settlement = "fulfilled" /\ ~fetched.ok) =>
        /\ (fetched.body.shape = "errorObject" /\ fetched.body.message # "") =>
                (llmResponse.hasError /\ llmResponse.error = fetched.body.message)
        /\ fetched.body.shape = "unparseable" =>
                (/\ llmResponse.hasError
                 /\ llmResponse.error =
                        ProviderName(llmProvider(env)) \o " API error: "
                            \o fetched.statusText)

\* The 2xx bodies of C5: a chat body without choices array, with no choice,
\* with a choice without message, with a message without content or with
\* empty content; a Hugging Face body that is no array, whose first element
\* has no generated_text, or whose generated_text is only the echoed prompt.
EmptyCompletion(provider, b) ==
    IF provider = "huggingface"
    THEN \/ b.shape \in {"emptyObject", "elementNoText"}
         \/ (b.shape = "generated" /\ b.echo /\ b.content = <<>>)
    ELSE \/ b.shape \in {"emptyObject", "emptyChoices", "choiceNoMessage",
                         "messageNoContent"}
         \/ (b.shape = "content" /\ b.content = <<>>)

\* C5: a success response with an empty or absent completion makes
\* improveResumeBullet fail with exactly "No response from <Provider>".
C5_NoResponse ==
    (/\ Returned /\ fetched.settlement = "fulfilled" /\ fetched.ok
     /\ EmptyCompletion(llmProvider(env), fetched.body)) =>
        /\ llmResponse.hasError
        /\ llmResponse.text = <<>>
        /\ llmResponse.error = "No response from " \o ProviderName(llmProvider(env))

\* C6: with a provider that is none of the three, an invocation has already
\* returned when the handler first could wait, its result is the failure
\* "Unsupported provider: <value>" as a value, and no fetch was ever called.
C6_UnsupportedProvider ==
    (llmProvider(env) \notin SupportedProviders) =>
        /\ httpLog = <<>>
        /\ pc # "llm"
        /\ (\E i \in DOMAIN invocations : invocations[i].req = reqNo) =>
                /\ llmResponse =
                        LLMResponse(<<>>, TRUE, "Unsupported provider: " \o llmProvider(env))
                /\ response = ErrorAnswer(500, "Unsupported provider: " \o llmProvider(env))

C6_Witness ==
    /\ env.LLM_PROVIDER = "anthropic"
    /\ pc = "done"
    /\ Len(invocations) = 2
    /\ llmResponse.error = "Unsupported provider: anthropic"

\* The request being served has no usable inputText.
BadInput == body.shape # "object" \/ InvalidInput(body)

\* C7: a request without usable inputText, and a request served while
\* LLM_API_KEY is unset, causes no improveResumeBullet invocation and no
\* fetch; and every invocation is handed the trimmed, non-empty inputText.
C7_RejectedBeforeDispatch ==
    /\ (pc # "idle" /\ (BadInput \/ env.LLM_API_KEY = "")) =>
            /\ \A i \in DOMAIN invocations : invocations[i].req # reqNo
            /\ \A i \in DOMAIN httpLog : httpLog[i].req # reqNo
            /\ pc = "done"
    /\ \A i \in DOMAIN invocations :
            /\ invocations[i].text # <<>>
            /\ invocations[i].text = Trim(invocations[i].text)
            /\ invocations[i].req = reqNo => invocations[i].text = Trim(body.str)

C7_Witness ==
    /\ reqNo = 2
    /\ body.fieldType = "string" /\ body.str = <<" ", "\n">>
    /\ response = ErrorAnswer(400, "Input text is required")
    /\ Len(invocations) = 1 /\ invocations[1].req = 1
    /\ Len(httpLog) = 1 /\ httpLog[1].req = 1

\* C8: the handler answers every request without usable inputText with a
\* client error (4xx) that carries a message.
C8_ClientError ==
    (pc = "done" /\ response.from = "POST" /\ BadInput) =>
        (response.status \in 400..499 /\ response.error # "")

\* C9: each invocation with a supported provider has called fetch exactly
\* once, with the URL of the configured provider, however the call ended;
\* so n invocations, identical or not, have made n calls.
C9_OneRequest ==
    (llmProvider(env) \in SupportedProviders) =>
        /\ Len(httpLog) = Len(invocations)
        /\ \A i \in DOMAIN invocations :
                /\ httpLog[i].req = invocations[i].req
                /\ httpLog[i].url = RequestUrl(llmConfig(env))

C9_Witness ==
    /\ reqNo = 2 /\ pc = "done"
    /\ Len(invocations) = 2 /\ invocations[1].text = invocations[2].text
    /\ Len(httpLog) = 2
    /\ fetched.settlement = "rejected"
    /\ env.LLM_PROVIDER = "huggingface" /\ env.LLM_BASE_URL # ""

\* C10: once improveResumeBullet has succeeded with non-empty text, the
\* handler answers 200 with that text, the text of the record it handed to
\* the insert, also when the insert returned an error or threw.
C10_StorageFailureIgnored ==
    (Returned /\ pc = "done" /\ ~LlmFailed(llmResponse)) =>
        /\ response = Answer("POST", 200, llmResponse.text, "")
        /\ \A i \in DOMAIN inserts : inserts[i].output_text = response.improvedText

C10_Witness ==
    /\ pc = "done"
    /\ dbResult = "throws"
    /\ response.status = 200
    /\ response.improvedText = <<"x">>

\* C11 as stated: cleanResponse strips at most one leading label, so of two
\* labels at the start the second one stays, whatever the two labels are.
C11_AtMostOneLabel ==
    passes = 1 =>
        \A i \in DOMAIN prefixes, j \in DOMAIN prefixes, sep \in {<<>>, <<" ">>} :
            raw = LabelPair(i, j, sep) => cleaned = prefixes[j] \o sep \o <<"x">>

\* C11 as amended: cleanResponse tries each known prefix once, in the order of
\* the array, against what then stands at the start.  A single label is
\* stripped; of two labels at the start the second is stripped too when it
\* comes later in the order than the first, and stays when it comes earlier
\* or is the same label.
C11_OneStripPerPrefix ==
    passes = 1 =>
        /\ \A i \in DOMAIN prefixes, sep \in {<<>>, <<" ">>} :
                raw = prefixes[i] \o sep \o <<"x">> => cleaned = <<"x">>
        /\ \A i \in DOMAIN prefixes, j \in DOMAIN prefixes, sep \in {<<>>, <<" ">>} :
                raw = LabelPair(i, j, sep) =>
                    cleaned = IF j > i THEN <<"x">> ELSE prefixes[j] \o sep \o <<"x">>

C11_Witness ==
    /\ passes = 1
    /\ raw = LabelPair(3, 5, <<" ">>)
    /\ cleaned = <<"x">>

\* C12: a request hands at most one record to the insert, and only once the
\* provider call has returned a success with non-empty cleaned text: never
\* after a validation error, with LLM_API_KEY unset or after a provider
\* failure.  The record is the trimmed inputText with the very text the
\* caller gets as improvedText.
C12_InsertOnceAfterSuccess ==
    /\ Len(inserts) <= 1
    /\ (BadInput \/ env.LLM_API_KEY = "" \/ llmResponse.hasError
            \/ fetched.settlement # "fulfilled" \/ ~fetched.ok) => inserts = <<>>
    /\ inserts # <<>> =>
            /\ Returned
            /\ llmResponse.text # <<>>
            /\ inserts[1] =
                    [input_text |-> Trim(body.str), output_text |-> llmResponse.text]
            /\ pc = "done" =>
                    (response.status = 200
                        /\ response.improvedText = inserts[1].output_text)

C12_Witness ==
    /\ pc = "done"
    /\ body.str = <<" ", "x", "\n">>
    /\ inserts = <<[input_text |-> <<"x">>, output_text |-> <<"x">>]>>
    /\ fetched.body.content = BulletLabel \o <<" ", "x">>
    /\ response.improvedText = <<"x">>

\* One of the two Supabase variables is not set.
SupabaseNotConfigured ==
    env.NEXT_PUBLIC_SUPABASE_URL = "" \/ env.NEXT_PUBLIC_SUPABASE_ANON_KEY = ""

\* C13: with the Supabase variables not set, a request with usable inputText,
\* served with LLM_API_KEY set, reaches improveResumeBullet, and when that
\* succeeds it is answered 200 with the improved text; the missing storage
\* configuration only means that nothing is inserted.
C13_MissingStorageSkipsSave ==
    (SupabaseNotConfigured /\ pc = "done" /\ ~BadInput /\ env.LLM_API_KEY # "") =>
        /\ Returned
        /\ inserts = <<>>
        /\ ~LlmFailed(llmResponse) =>
                response = Answer("POST", 200, llmResponse.text, "")
====
